---- MODULE Spec2Model ----
(* Connection hub of gochat (src/main.go): the registry maps clients and     *)
(* userIdToConn under clientsMu, broadcast, forwardSignal, the wsHandler      *)
(* session, sendHandler and infoHandler.                                      *)
(* The Time field of Message is left out: no modelled code reads it.          *)
EXTENDS Naturals, FiniteSets, Sequences, TLC

\* ---------------------------------------------------------------- bounds
NumConns == 2

\* ------------------------------------------------------------- universes
Conns == 1..NumConns
Ids == {"A", "B"}
\* An optional value: Nil, or Some(x) whose content is x[1].
Nil == << >>
Some(x) == <<x>>
NoID == ""
\* The sessions are numbered by their connection; the two HTTP handlers follow.
SendProc == NumConns + 1
InfoProc == NumConns + 2
Procs == Conns \cup {SendProc, InfoProc}

\* Inbound frames a client may put on its connection (msgBytes).
\* env: outer envelope type, or "garbage" when the envelope does not decode;
\* inner: "ok" when envelope.Data decodes into a SignalMessage.
SignalFrames ==
    [env : {"signal"}, inner : {"ok"}, type : {"offer"},
     from : {"", "B"}, to : Ids, payload : {"sdp"}]
    \cup [env : {"signal"}, inner : {"ok"}, type : {""},
          from : {""}, to : {"A"}, payload : {"sdp"}]
    \cup [env : {"signal"}, inner : {"ok"}, type : {"offer"},
          from : {""}, to : {""}, payload : {"sdp"}]
InFrames ==
    SignalFrames
    \cup {[env |-> "signal", inner |-> "bad", type |-> "", from |-> "", to |-> "", payload |-> ""],
          [env |-> "message", inner |-> "bad", type |-> "", from |-> "A", to |-> "", payload |-> "hi"],
          [env |-> "garbage", inner |-> "bad", type |-> "", from |-> "", to |-> "", payload |-> ""]}

\* POST /send requests: method, whether the body decodes, Message and From.
SendRequests ==
    [method : {"POST", "GET"}, json : {TRUE, FALSE}, message : {"", "hi"}, from : {"", "A"}]

VARIABLES
    clients,        \* forward map: connection -> userID
    userIdToConn,   \* reverse index: userID -> connection
    wholder,        \* holder of clientsMu.Lock(), or Nil
    rholders,       \* holders of clientsMu.RLock()
    pc,             \* position of every handler
    userID,         \* wsHandler local userID
    count,          \* wsHandler local count / newCount
    users,          \* wsHandler local users, as a multiset Ids -> Nat
    frame,          \* wsHandler local msgBytes being dispatched, or Nil
    sig,            \* wsHandler local s (SignalMessage) being forwarded, or Nil
    target,         \* forwardSignal local conn, or Nil
    visited,        \* broadcast: connections the range loop has passed
    attempts,       \* WriteMessage calls of the current broadcast/forwardSignal call
    req,            \* sendHandler local req, or Nil
    online,         \* infoHandler local online, or Nil
    closed,         \* connections on which conn.Close() ran
    rosters,        \* the rosters of the users frames written to each connection so far
    view,           \* the roster of the last users frame written to each connection
    inits,          \* how many init frames were written to each connection so far
    logging,        \* whether rosters, view and inits are kept: they record the
                    \* writes for the properties and no step of the program reads them
    pending,        \* the session whose clientsMu.Lock() call is announced, or Nil
    writing         \* per handler: the connection its running WriteMessage call is on, or Nil

vars == <<clients, userIdToConn, wholder, rholders, pc, userID, count, users, frame,
          sig, target, visited, attempts, req, online, closed, rosters, view,
          inits, logging, pending, writing>>

\* ------------------------------------------------------------ map helpers
EmptyMap == [x \in {} |-> Nil]
MapPut(m, k, v) == [x \in DOMAIN m \cup {k} |-> IF x = k THEN v ELSE m[x]]
\* Mutant: the delete is forgotten.
MapDelete_Noop(m, k) == m
MapDelete(m, k) == [x \in DOMAIN m \ {k} |-> m[x]]
MapLen(m) == Cardinality(DOMAIN m)
\* for _, uid := range clients { users = append(users, uid) }: the values of the
\* map with their multiplicities (the order of a Go map range is unspecified).
MapValues(m) == [i \in Ids |-> Cardinality({c \in DOMAIN m : m[c] = i})]
NoUsers == [i \in Ids |-> 0]
NoAttempts == [c \in Conns |-> 0]

\* ------------------------------------------------------- outbound frames
InitMsg(id) == [type |-> "init", userId |-> id]
UsersMsg(u) == [type |-> "users", from |-> "system", roster |-> u]
NarrativeMsg(kind, id, n) == [type |-> "message", from |-> "system", text |-> <<kind, id, n>>]
ChatMsg(from, text) == [type |-> "message", from |-> from, text |-> <<"chat", text>>]
SignalMsg(s) == [type |-> "signal", data |-> s]

\* conn.WriteMessage(websocket.TextMessage, data) on connection c. A connection
\* is an ordered stream: what its peer receives is a prefix of what was written
\* to it, so the model records writes, and of these the users frames, which
\* make the member list the peer shows, and the number of init frames. Whether
\* the call returns an error is the caller's input `ok`.
WriteMessage(c, m) ==
    /\ IF logging /\ m.type = "users"
       THEN /\ rosters' = [rosters EXCEPT ![c] = @ \cup {m.roster}]
            /\ view' = [view EXCEPT ![c] = Some(m.roster)]
       ELSE UNCHANGED <<rosters, view>>
    /\ inits' = [inits EXCEPT ![c] = IF logging /\ m.type = "init" THEN @ + 1 ELSE @]

\* ------------------------------------------------------------------ Init
InitWith(log) ==
    /\ clients = EmptyMap
    /\ userIdToConn = EmptyMap
    /\ wholder = Nil
    /\ rholders = {}
    /\ pc = [p \in Procs |-> IF p \in Conns THEN "upgrade" ELSE "idle"]
    /\ userID = [c \in Conns |-> NoID]
    /\ count = [c \in Conns |-> 0]
    /\ users = [c \in Conns |-> NoUsers]
    /\ frame = [c \in Conns |-> Nil]
    /\ sig = [c \in Conns |-> Nil]
    /\ target = [c \in Conns |-> Nil]
    /\ visited = [p \in Procs |-> {}]
    /\ attempts = [p \in Procs |-> NoAttempts]
    /\ req = Nil
    /\ online = Nil
    /\ closed = {}
    /\ rosters = [c \in Conns |-> {}]
    /\ view = [c \in Conns |-> Nil]
    /\ inits = [c \in Conns |-> 0]
    /\ pending = Nil
    /\ logging = log
    /\ writing = [p \in Procs |-> Nil]
\* The hub with the record of its writes, and the same hub without it.
Init == InitWith(TRUE)
LiveInit == InitWith(FALSE)

\* ------------------------------------------------- wsHandler: connecting
\* Mutant: the identity is drawn before the error of Upgrade is looked at.
Upgrade_IdentityFirst(c) ==
    /\ pc[c] = "upgrade"
    /\ \E ok \in BOOLEAN : pc' = [pc EXCEPT ![c] = IF ok THEN "genid" ELSE "done"]
    /\ \E id \in Ids : userID' = [userID EXCEPT ![c] = id]
    /\ UNCHANGED <<clients, userIdToConn, wholder, rholders, count, users, frame,
                   sig, target, visited, attempts, req, online, closed, rosters, view,
                   inits, logging, pending, writing>>

\* upgrader.Upgrade: on failure the handler returns before anything else.
Upgrade(c) ==
    /\ pc[c] = "upgrade"
    /\ \E ok \in BOOLEAN : pc' = [pc EXCEPT ![c] = IF ok THEN "genid" ELSE "done"]
    /\ UNCHANGED <<clients, userIdToConn, wholder, rholders, userID, count, users, frame,
                   sig, target, visited, attempts, req, online, closed, rosters, view,
                   inits, logging, pending, writing>>

\* generateUserID: six random characters, with no look at the registry.
GenerateUserID(c) ==
    /\ pc[c] = "genid"
    /\ \E id \in Ids : userID' = [userID EXCEPT ![c] = id]
    /\ pc' = [pc EXCEPT ![c] = "reg_lock"]
    /\ UNCHANGED <<clients, userIdToConn, wholder, rholders, count, users, frame,
                   sig, target, visited, attempts, req, online, closed, rosters, view,
                   inits, logging, pending, writing>>

\* sync.RWMutex as its documentation gives it: Lock() first announces the
\* writer, one at a time, and from then until its Unlock() no RLock() call is
\* let in; the writer gets the lock once the readers that hold it have left.
CanAnnounce == pending = Nil
\* Mutant: the writer does not wait for the readers to leave.
CanLock_IgnoreReaders(c) == pending = Some(c) /\ wholder = Nil
CanLock(c) == pending = Some(c) /\ wholder = Nil /\ rholders = {}
CanRLock == pending = Nil /\ wholder = Nil

\* clientsMu.Lock() is called: the writer is announced and waits
RegLockCall(c) ==
    /\ pc[c] = "reg_lock"
    /\ CanAnnounce
    /\ pending' = Some(c)
    /\ UNCHANGED <<clients, userIdToConn, wholder, rholders, pc, userID, count, users,
                   frame, sig, target, visited, attempts, req, online, closed, rosters,
                   view, inits, logging, writing>>

\* clientsMu.Lock() returns
RegLock(c) ==
    /\ pc[c] = "reg_lock"
    /\ CanLock(c)
    /\ wholder' = Some(c)
    /\ pc' = [pc EXCEPT ![c] = "reg_fwd"]
    /\ UNCHANGED <<clients, userIdToConn, rholders, userID, count, users, frame,
                   sig, target, visited, attempts, req, online, closed, rosters, view,
                   inits, logging, pending, writing>>

\* clients[conn] = userID
RegForward(c) ==
    /\ pc[c] = "reg_fwd"
    /\ clients' = MapPut(clients, c, userID[c])
    /\ pc' = [pc EXCEPT ![c] = "reg_rev"]
    /\ UNCHANGED <<userIdToConn, wholder, rholders, userID, count, users, frame,
                   sig, target, visited, attempts, req, online, closed, rosters, view,
                   inits, logging, pending, writing>>

\* userIdToConn[userID] = conn
RegReverse(c) ==
    /\ pc[c] = "reg_rev"
    /\ userIdToConn' = MapPut(userIdToConn, userID[c], c)
    /\ pc' = [pc EXCEPT ![c] = "reg_snap"]
    /\ UNCHANGED <<clients, wholder, rholders, userID, count, users, frame,
                   sig, target, visited, attempts, req, online, closed, rosters, view,
                   inits, logging, pending, writing>>

\* Mutant: the init frame is written before clientsMu.Unlock().
RegSnapshot_KeepLock(c) ==
    /\ pc[c] = "reg_snap"
    /\ count' = [count EXCEPT ![c] = MapLen(clients)]
    /\ users' = [users EXCEPT ![c] = MapValues(clients)]
    /\ UNCHANGED <<wholder, pending>>
    /\ pc' = [pc EXCEPT ![c] = "init"]
    /\ UNCHANGED <<clients, userIdToConn, rholders, userID, frame,
                   sig, target, visited, attempts, req, online, closed, rosters, view,
                   inits, logging, writing>>

\* count := len(clients); users := values of clients; clientsMu.Unlock()
RegSnapshot(c) ==
    /\ pc[c] = "reg_snap"
    /\ count' = [count EXCEPT ![c] = MapLen(clients)]
    /\ users' = [users EXCEPT ![c] = MapValues(clients)]
    /\ wholder' = Nil
    /\ pending' = Nil
    /\ pc' = [pc EXCEPT ![c] = "init"]
    /\ UNCHANGED <<clients, userIdToConn, rholders, userID, frame,
                   sig, target, visited, attempts, req, online, closed, rosters, view,
                   inits, logging, writing>>

\* Mutant: the init frame is not written at all.
SendInit_Skipped(c) ==
    /\ pc[c] = "init"
    /\ writing[c] = Some(c)
    /\ writing' = [writing EXCEPT ![c] = Nil]
    /\ pc' = [pc EXCEPT ![c] = "join_users"]
    /\ UNCHANGED <<clients, userIdToConn, wholder, rholders, userID, count, users, frame,
                   sig, target, visited, attempts, req, online, closed, logging, pending,
                   rosters, view, inits>>

\* Mutant: the init frame goes to every registered connection.
SendInit_ToAll(c) ==
    /\ pc[c] = "init"
    /\ writing[c] = Some(c)
    /\ inits' = [x \in Conns |-> IF x \in DOMAIN clients THEN inits[x] + 1 ELSE inits[x]]
    /\ writing' = [writing EXCEPT ![c] = Nil]
    /\ pc' = [pc EXCEPT ![c] = "join_users"]
    /\ UNCHANGED <<clients, userIdToConn, wholder, rholders, userID, count, users, frame,
                   sig, target, visited, attempts, req, online, closed, logging, pending,
                   rosters, view>>

\* conn.WriteMessage(init) is called, by the session itself, outside the lock.
SendInitCall(c) ==
    /\ pc[c] = "init"
    /\ writing[c] = Nil
    /\ writing' = [writing EXCEPT ![c] = Some(c)]
    /\ UNCHANGED <<clients, userIdToConn, wholder, rholders, pc, userID, count, users,
                   frame, sig, target, visited, attempts, req, online, closed, rosters,
                   view, inits, logging, pending>>

\* conn.WriteMessage(init) returns.
SendInit(c) ==
    /\ pc[c] = "init"
    /\ writing[c] = Some(c)
    /\ WriteMessage(c, InitMsg(userID[c]))
    /\ writing' = [writing EXCEPT ![c] = Nil]
    /\ pc' = [pc EXCEPT ![c] = "join_users"]
    /\ UNCHANGED <<clients, userIdToConn, wholder, rholders, userID, count, users, frame,
                   sig, target, visited, attempts, req, online, closed, logging, pending>>

\* -------------------------------------------------------------- broadcast
\* The call sites of broadcast: four in wsHandler, one in sendHandler.
BroadcastSites == {"join_users", "join_msg", "leave_users", "leave_msg", "send_bc"}
AfterBroadcast(site) ==
    CASE site = "join_users" -> "join_msg"
      [] site = "join_msg" -> "read"
      [] site = "leave_users" -> "leave_msg"
      [] site = "leave_msg" -> "close"
      [] site = "send_bc" -> "idle"

\* Mutant: the join announces the narrative first and the roster second.
BroadcastMsg_NarrativeFirst(p) ==
    CASE pc[p] = "join_users" -> NarrativeMsg("join", userID[p], count[p])
      [] pc[p] = "join_msg" -> UsersMsg(users[p])
      [] pc[p] = "leave_users" -> UsersMsg(users[p])
      [] pc[p] = "leave_msg" -> NarrativeMsg("leave", userID[p], count[p])
      [] pc[p] = "send_bc" -> ChatMsg(req[1].from, req[1].message)

\* The WSMessage each call site passes to broadcast.
BroadcastMsg(p) ==
    CASE pc[p] = "join_users" -> UsersMsg(users[p])
      [] pc[p] = "join_msg" -> NarrativeMsg("join", userID[p], count[p])
      [] pc[p] = "leave_users" -> UsersMsg(users[p])
      [] pc[p] = "leave_msg" -> NarrativeMsg("leave", userID[p], count[p])
      [] pc[p] = "send_bc" -> ChatMsg(req[1].from, req[1].message)

\* clientsMu.RLock() at the head of broadcast
BroadcastRLock(p) ==
    /\ pc[p] \in BroadcastSites
    /\ p \notin rholders
    /\ CanRLock
    /\ rholders' = rholders \cup {p}
    /\ visited' = [visited EXCEPT ![p] = {}]
    /\ attempts' = [attempts EXCEPT ![p] = NoAttempts]
    /\ UNCHANGED <<clients, userIdToConn, wholder, pc, userID, count, users, frame,
                   sig, target, req, online, closed, rosters, view,
                   inits, logging, pending, writing>>

\* Mutant: the loop breaks at the first failed write.
AfterWrite_Break(p, c, ok) == IF ok THEN visited[p] \cup {c} ELSE DOMAIN clients

\* What the range loop has passed once the write to c returned: an error is
\* only logged, and the loop goes on with the next connection.
AfterWrite(p, c, ok) == visited[p] \cup {c}

\* One turn of `for client := range clients` calls client.WriteMessage.
BroadcastWriteCall(p) ==
    /\ pc[p] \in BroadcastSites
    /\ p \in rholders
    /\ writing[p] = Nil
    /\ \E c \in DOMAIN clients \ visited[p] : writing' = [writing EXCEPT ![p] = Some(c)]
    /\ UNCHANGED <<clients, userIdToConn, wholder, rholders, pc, userID, count, users,
                   frame, sig, target, visited, attempts, req, online, closed, rosters,
                   view, inits, logging, pending>>

\* The call returns; ok is whether the write succeeded.
BroadcastWrite(p) ==
    /\ pc[p] \in BroadcastSites
    /\ p \in rholders
    /\ writing[p] # Nil
    /\ \E ok \in BOOLEAN :
          /\ WriteMessage(writing[p][1], BroadcastMsg(p))
          /\ visited' = [visited EXCEPT ![p] = AfterWrite(p, writing[p][1], ok)]
          /\ attempts' = [attempts EXCEPT ![p][writing[p][1]] = @ + 1]
    /\ writing' = [writing EXCEPT ![p] = Nil]
    /\ UNCHANGED <<clients, userIdToConn, wholder, rholders, pc, userID, count, users,
                   frame, sig, target, req, online, closed, logging, pending>>

\* The range loop is over: the deferred clientsMu.RUnlock() runs and broadcast
\* returns to its call site (sendHandler then answers and forgets req).
BroadcastRUnlock(p) ==
    /\ pc[p] \in BroadcastSites
    /\ p \in rholders
    /\ writing[p] = Nil
    /\ DOMAIN clients \ visited[p] = {}
    /\ rholders' = rholders \ {p}
    /\ visited' = [visited EXCEPT ![p] = {}]
    /\ attempts' = [attempts EXCEPT ![p] = NoAttempts]
    /\ pc' = [pc EXCEPT ![p] = AfterBroadcast(pc[p])]
    /\ req' = IF p = SendProc THEN Nil ELSE req
    /\ UNCHANGED <<clients, userIdToConn, wholder, userID, count, users, frame,
                   sig, target, online, closed, rosters, view,
                   inits, logging, pending, writing>>

\* ------------------------------------------------- wsHandler: read loop
\* conn.ReadMessage(): an error leaves the loop, a frame is kept in msgBytes.
ReadMessage(c) ==
    /\ pc[c] = "read"
    /\ \/ /\ pc' = [pc EXCEPT ![c] = "unreg_lock"]
          /\ UNCHANGED frame
       \/ /\ \E f \in InFrames : frame' = [frame EXCEPT ![c] = Some(f)]
          /\ pc' = [pc EXCEPT ![c] = "dispatch"]
    /\ UNCHANGED <<clients, userIdToConn, wholder, rholders, userID, count, users,
                   sig, target, visited, attempts, req, online, closed, rosters, view,
                   inits, logging, pending, writing>>

\* Mutant: the test for an empty kind is missing.
IsSignal_NoKindTest(f) == f.env = "signal" /\ f.inner = "ok" /\ f.to # ""
\* The two json.Unmarshal tests of the loop body.
IsSignal(f) == f.env = "signal" /\ f.inner = "ok" /\ f.type # "" /\ f.to # ""
\* Mutant: the source is always overwritten with the sender's identity.
FillFrom_Always(f, uid) ==
    [type |-> f.type, from |-> uid, to |-> f.to, payload |-> f.payload]
\* s after `if s.From == "" { s.From = userID }`
FillFrom(f, uid) ==
    [type |-> f.type, from |-> IF f.from = "" THEN uid ELSE f.from,
     to |-> f.to, payload |-> f.payload]

\* Classification of the frame: a signaling frame goes to forwardSignal, any
\* other frame is dropped and the loop reads again.
Dispatch(c) ==
    /\ pc[c] = "dispatch"
    /\ IF IsSignal(frame[c][1])
       THEN /\ sig' = [sig EXCEPT ![c] = Some(FillFrom(frame[c][1], userID[c]))]
            /\ pc' = [pc EXCEPT ![c] = "fwd_lock"]
            /\ UNCHANGED frame
       ELSE /\ frame' = [frame EXCEPT ![c] = Nil]
            /\ pc' = [pc EXCEPT ![c] = "read"]
            /\ UNCHANGED sig
    /\ UNCHANGED <<clients, userIdToConn, wholder, rholders, userID, count, users,
                   target, visited, attempts, req, online, closed, rosters, view,
                   inits, logging, pending, writing>>

\* ----------------------------------------------------------- forwardSignal
\* Mutant: an unbound identity falls back to some registered connection.
Lookup_AnyConn(id) ==
    IF id \in DOMAIN userIdToConn THEN Some(userIdToConn[id])
    ELSE IF DOMAIN clients # {} THEN Some(CHOOSE c \in DOMAIN clients : TRUE) ELSE Nil

\* conn := userIdToConn[toUserId]: nil when the key is absent.
Lookup(id) == IF id \in DOMAIN userIdToConn THEN Some(userIdToConn[id]) ELSE Nil

\* clientsMu.RLock() and the lookup; a nil conn returns the error at once.
ForwardRLock(c) ==
    /\ pc[c] = "fwd_lock"
    /\ CanRLock
    /\ rholders' = rholders \cup {c}
    /\ target' = [target EXCEPT ![c] = Lookup(sig[c][1].to)]
    /\ attempts' = [attempts EXCEPT ![c] = NoAttempts]
    /\ pc' = [pc EXCEPT ![c] = IF Lookup(sig[c][1].to) = Nil THEN "fwd_unlock" ELSE "fwd_write"]
    /\ UNCHANGED <<clients, userIdToConn, wholder, userID, count, users, frame,
                   sig, visited, req, online, closed, rosters, view,
                   inits, logging, pending, writing>>

\* conn.WriteMessage(data) is called on the one resolved connection
ForwardWriteCall(c) ==
    /\ pc[c] = "fwd_write"
    /\ writing[c] = Nil
    /\ writing' = [writing EXCEPT ![c] = target[c]]
    /\ UNCHANGED <<clients, userIdToConn, wholder, rholders, pc, userID, count, users,
                   frame, sig, target, visited, attempts, req, online, closed, rosters,
                   view, inits, logging, pending>>

\* conn.WriteMessage(data) returns
ForwardWrite(c) ==
    /\ pc[c] = "fwd_write"
    /\ writing[c] # Nil
    /\ WriteMessage(writing[c][1], SignalMsg(sig[c][1]))
    /\ attempts' = [attempts EXCEPT ![c][writing[c][1]] = @ + 1]
    /\ writing' = [writing EXCEPT ![c] = Nil]
    /\ pc' = [pc EXCEPT ![c] = "fwd_unlock"]
    /\ UNCHANGED <<clients, userIdToConn, wholder, rholders, userID, count, users, frame,
                   sig, target, visited, req, online, closed, logging, pending>>

\* Mutant: the return for a nil conn leaves without RUnlock().
ForwardRUnlock_LeakOnNil(c) ==
    /\ pc[c] = "fwd_unlock"
    /\ rholders' = IF target[c] = Nil THEN rholders ELSE rholders \ {c}
    /\ frame' = [frame EXCEPT ![c] = Nil]
    /\ sig' = [sig EXCEPT ![c] = Nil]
    /\ target' = [target EXCEPT ![c] = Nil]
    /\ attempts' = [attempts EXCEPT ![c] = NoAttempts]
    /\ pc' = [pc EXCEPT ![c] = "read"]
    /\ UNCHANGED <<clients, userIdToConn, wholder, userID, count, users,
                   visited, req, online, closed, rosters, view,
                   inits, logging, pending, writing>>

\* deferred clientsMu.RUnlock(); the error, if any, is logged and the loop reads on
ForwardRUnlock(c) ==
    /\ pc[c] = "fwd_unlock"
    /\ rholders' = rholders \ {c}
    /\ frame' = [frame EXCEPT ![c] = Nil]
    /\ sig' = [sig EXCEPT ![c] = Nil]
    /\ target' = [target EXCEPT ![c] = Nil]
    /\ attempts' = [attempts EXCEPT ![c] = NoAttempts]
    /\ pc' = [pc EXCEPT ![c] = "read"]
    /\ UNCHANGED <<clients, userIdToConn, wholder, userID, count, users,
                   visited, req, online, closed, rosters, view,
                   inits, logging, pending, writing>>

\* ---------------------------------------- wsHandler: the deferred teardown
\* clientsMu.Lock() is called: the writer is announced and waits
UnregLockCall(c) ==
    /\ pc[c] = "unreg_lock"
    /\ CanAnnounce
    /\ pending' = Some(c)
    /\ UNCHANGED <<clients, userIdToConn, wholder, rholders, pc, userID, count, users,
                   frame, sig, target, visited, attempts, req, online, closed, rosters,
                   view, inits, logging, writing>>

\* clientsMu.Lock() returns
UnregLock(c) ==
    /\ pc[c] = "unreg_lock"
    /\ CanLock(c)
    /\ wholder' = Some(c)
    /\ pc' = [pc EXCEPT ![c] = "unreg_fwd"]
    /\ UNCHANGED <<clients, userIdToConn, rholders, userID, count, users, frame,
                   sig, target, visited, attempts, req, online, closed, rosters, view,
                   inits, logging, pending, writing>>

\* delete(clients, conn)
UnregForward(c) ==
    /\ pc[c] = "unreg_fwd"
    /\ clients' = MapDelete(clients, c)
    /\ pc' = [pc EXCEPT ![c] = "unreg_rev"]
    /\ UNCHANGED <<userIdToConn, wholder, rholders, userID, count, users, frame,
                   sig, target, visited, attempts, req, online, closed, rosters, view,
                   inits, logging, pending, writing>>

\* Mutant: the teardown leaves the reverse entry in place.
UnregReverse_Forgotten(c) ==
    /\ pc[c] = "unreg_rev"
    /\ userIdToConn' = userIdToConn
    /\ pc' = [pc EXCEPT ![c] = "unreg_snap"]
    /\ UNCHANGED <<clients, wholder, rholders, userID, count, users, frame,
                   sig, target, visited, attempts, req, online, closed, rosters, view,
                   inits, logging, pending, writing>>

\* delete(userIdToConn, userID)
UnregReverse(c) ==
    /\ pc[c] = "unreg_rev"
    /\ userIdToConn' = MapDelete(userIdToConn, userID[c])
    /\ pc' = [pc EXCEPT ![c] = "unreg_snap"]
    /\ UNCHANGED <<clients, wholder, rholders, userID, count, users, frame,
                   sig, target, visited, attempts, req, online, closed, rosters, view,
                   inits, logging, pending, writing>>

\* newCount := len(clients); users := values of clients; clientsMu.Unlock()
UnregSnapshot(c) ==
    /\ pc[c] = "unreg_snap"
    /\ count' = [count EXCEPT ![c] = MapLen(clients)]
    /\ users' = [users EXCEPT ![c] = MapValues(clients)]
    /\ wholder' = Nil
    /\ pending' = Nil
    /\ pc' = [pc EXCEPT ![c] = "leave_users"]
    /\ UNCHANGED <<clients, userIdToConn, rholders, userID, frame,
                   sig, target, visited, attempts, req, online, closed, rosters, view,
                   inits, logging, writing>>

\* defer conn.Close(): runs last, after the deferred teardown function
Close(c) ==
    /\ pc[c] = "close"
    /\ closed' = closed \cup {c}
    /\ pc' = [pc EXCEPT ![c] = "done"]
    /\ UNCHANGED <<clients, userIdToConn, wholder, rholders, userID, count, users, frame,
                   sig, target, visited, attempts, req, online, rosters, view,
                   inits, logging, pending, writing>>

\* ------------------------------------------------------------ sendHandler
\* Mutant: the test for an empty message or sender is missing.
SendAccepted_NoEmptyTest(r) == r.method = "POST" /\ r.json

\* The three early returns of sendHandler.
SendAccepted(r) == r.method = "POST" /\ r.json /\ r.message # "" /\ r.from # ""

\* A request arrives: it is refused, or its message goes to broadcast.
SendRequest ==
    /\ pc[SendProc] = "idle"
    /\ \E r \in SendRequests :
          IF SendAccepted(r)
          THEN req' = Some(r) /\ pc' = [pc EXCEPT ![SendProc] = "send_bc"]
          ELSE UNCHANGED <<req, pc>>
    /\ UNCHANGED <<clients, userIdToConn, wholder, rholders, userID, count, users, frame,
                   sig, target, visited, attempts, online, closed, rosters, view,
                   inits, logging, pending, writing>>

\* ------------------------------------------------------------ infoHandler
\* A GET /info request arrives.
InfoRequest ==
    /\ pc[InfoProc] = "idle"
    /\ pc' = [pc EXCEPT ![InfoProc] = "info_lock"]
    /\ UNCHANGED <<clients, userIdToConn, wholder, rholders, userID, count, users, frame,
                   sig, target, visited, attempts, req, online, closed, rosters, view,
                   inits, logging, pending, writing>>

\* clientsMu.RLock(); online := len(clients)
InfoRLock ==
    /\ pc[InfoProc] = "info_lock"
    /\ CanRLock
    /\ rholders' = rholders \cup {InfoProc}
    /\ online' = Some(MapLen(clients))
    /\ pc' = [pc EXCEPT ![InfoProc] = "info_unlock"]
    /\ UNCHANGED <<clients, userIdToConn, wholder, userID, count, users, frame,
                   sig, target, visited, attempts, req, closed, rosters, view,
                   inits, logging, pending, writing>>

\* clientsMu.RUnlock(); the ServiceInfo is encoded into the response
InfoRUnlock ==
    /\ pc[InfoProc] = "info_unlock"
    /\ rholders' = rholders \ {InfoProc}
    /\ online' = Nil
    /\ pc' = [pc EXCEPT ![InfoProc] = "idle"]
    /\ UNCHANGED <<clients, userIdToConn, wholder, userID, count, users, frame,
                   sig, target, visited, attempts, req, closed, rosters, view,
                   inits, logging, pending, writing>>

\* ---------------------------------------------------------- specification
Next ==
    \/ \E c \in Conns : Upgrade(c)
    \/ \E c \in Conns : GenerateUserID(c)
    \/ \E c \in Conns : RegLockCall(c)
    \/ \E c \in Conns : RegLock(c)
    \/ \E c \in Conns : RegForward(c)
    \/ \E c \in Conns : RegReverse(c)
    \/ \E c \in Conns : RegSnapshot(c)
    \/ \E c \in Conns : SendInitCall(c)
    \/ \E c \in Conns : SendInit(c)
    \/ \E p \in Conns \cup {SendProc} : BroadcastRLock(p)
    \/ \E p \in Conns \cup {SendProc} : BroadcastWriteCall(p)
    \/ \E p \in Conns \cup {SendProc} : BroadcastWrite(p)
    \/ \E p \in Conns \cup {SendProc} : BroadcastRUnlock(p)
    \/ \E c \in Conns : ReadMessage(c)
    \/ \E c \in Conns : Dispatch(c)
    \/ \E c \in Conns : ForwardRLock(c)
    \/ \E c \in Conns : ForwardWriteCall(c)
    \/ \E c \in Conns : ForwardWrite(c)
    \/ \E c \in Conns : ForwardRUnlock(c)
    \/ \E c \in Conns : UnregLockCall(c)
    \/ \E c \in Conns : UnregLock(c)
    \/ \E c \in Conns : UnregForward(c)
    \/ \E c \in Conns : UnregReverse(c)
    \/ \E c \in Conns : UnregSnapshot(c)
    \/ \E c \in Conns : Close(c)
    \/ SendRequest
    \/ InfoRequest
    \/ InfoRLock
    \/ InfoRUnlock

Spec == Init /\ [][Next]_vars

\* ================================================================ claims
\* Positions of wsHandler between the end of its registration and the start of
\* its teardown: the session has registered and not yet unregistered.
InRegistry(c) ==
    pc[c] \in {"init", "join_users", "join_msg", "read", "dispatch",
               "fwd_lock", "fwd_write", "fwd_unlock", "unreg_lock"}
\* Positions after the teardown's critical section.
HasLeft(c) == pc[c] \in {"leave_users", "leave_msg", "close"} \/ c \in closed
Only(c) == [x \in Conns |-> IF x = c THEN 1 ELSE 0]
Broadcasters == Conns \cup {SendProc}

\* C1: whenever nobody holds the exclusive lock, clients and userIdToConn have
\* the same number of entries and are inverses of each other, whatever
\* identities generateUserID returns.
C1_MutualInverse ==
    wholder = Nil =>
        /\ MapLen(clients) = MapLen(userIdToConn)
        /\ \A c \in Conns : \A id \in Ids :
              (c \in DOMAIN clients /\ clients[c] = id)
                  <=> (id \in DOMAIN userIdToConn /\ userIdToConn[id] = c)

\* C2: when N sessions have registered and none has unregistered, the registry
\* holds N entries and the roster snapshot holds N pairwise distinct identities.
C2_DistinctRoster ==
    (wholder = Nil /\ \A c \in Conns : ~HasLeft(c) /\ pc[c] \notin {"unreg_fwd", "unreg_rev", "unreg_snap"}) =>
        LET N == Cardinality({c \in Conns : InRegistry(c)}) IN
        /\ MapLen(clients) = N
        /\ Cardinality({i \in Ids : MapValues(clients)[i] > 0}) = N
        /\ \A i \in Ids : MapValues(clients)[i] <= 1

\* C3: a broadcast call writes exactly once to every connection that is in the
\* forward map while the call holds the shared lock and to no other connection,
\* whether or not some of the writes fail.
C3_BroadcastFanOut ==
    [][\A p \in Broadcasters :
          (pc[p] \in BroadcastSites /\ p \in rholders) =>
              /\ clients' = clients
              /\ \A c \in Conns : attempts[p][c] = IF c \in visited[p] THEN 1 ELSE 0
              /\ visited[p] \subseteq DOMAIN clients
              /\ p \notin rholders' => attempts[p] = [c \in Conns |-> IF c \in DOMAIN clients THEN 1 ELSE 0]
      ]_vars
C3_Witness ==
    \E p \in Broadcasters :
        /\ pc[p] \in BroadcastSites /\ p \in rholders
        /\ MapLen(clients) = NumConns
        /\ \A c \in DOMAIN clients : attempts[p][c] = 1

\* C4: a signaling frame with a kind and a destination that is the identity of
\* a registered connection c makes forwardSignal write exactly one signal frame,
\* with the same kind, destination and payload, to c and none to anyone else.
\* (The registry is read at the lookup, under the shared lock.)
C4_RelayToRegistered ==
    \A s \in Conns :
        pc[s] = "fwd_unlock" =>
            /\ sig[s][1].type = frame[s][1].type
            /\ sig[s][1].to = frame[s][1].to
            /\ sig[s][1].payload = frame[s][1].payload
            /\ \A c \in DOMAIN clients :
                  clients[c] = frame[s][1].to => attempts[s] = Only(c)

\* C5: a signaling frame whose destination is not bound in the reverse index at
\* the lookup causes no write, is not kept for later, leaves both maps as they
\* are, and the session goes back to reading.
C5_UnboundDropped ==
    [][\A s \in Conns :
          /\ (pc[s] = "fwd_lock" /\ pc'[s] # "fwd_lock" /\ sig[s][1].to \notin DOMAIN userIdToConn) =>
                /\ pc'[s] = "fwd_unlock" /\ target'[s] = Nil
                /\ attempts'[s] = NoAttempts
                /\ UNCHANGED <<clients, userIdToConn, rosters, view, closed>>
          /\ (pc[s] = "fwd_unlock" /\ target[s] = Nil) =>
                /\ attempts[s] = NoAttempts
                /\ UNCHANGED <<clients, userIdToConn>>
                /\ pc'[s] # pc[s] =>
                      /\ pc'[s] = "read"
                      /\ frame'[s] = Nil /\ sig'[s] = Nil
                      /\ UNCHANGED <<rosters, view, closed>>
      ]_vars
C5_Witness ==
    \E s \in Conns :
        /\ pc[s] = "fwd_unlock" /\ target[s] = Nil
        /\ sig[s][1].to \notin DOMAIN userIdToConn
        /\ MapLen(clients) = NumConns

\* A step in which broadcaster p writes its message to connection c.
WritesTo(p, c) ==
    /\ pc[p] \in BroadcastSites /\ p \in rholders
    /\ c \notin visited[p] /\ attempts'[p][c] = attempts[p][c] + 1
\* Connection c has been written a users frame whose roster contains id.
HasRosterWith(c, id) == \E r \in rosters[c] : r[id] > 0

\* C6: every connection that the "joined, N online" narrative of a join is
\* written to has been written, before it, a roster that contains the joining
\* identity.
C6_RosterBeforeNarrative ==
    [][\A s \in Conns : \A c \in Conns :
          (pc[s] = "join_msg" /\ WritesTo(s, c)) => HasRosterWith(c, userID[s])
      ]_vars

\* C6 as amended: the same, except for a connection that registered after the
\* join's roster broadcast and has not yet been written the roster of its own
\* join (which contains the joining identity too).
C6_RosterBeforeNarrativeAmended ==
    [][\A s \in Conns : \A c \in Conns :
          (pc[s] = "join_msg" /\ WritesTo(s, c)) =>
              \/ HasRosterWith(c, userID[s])
              \/ /\ c # s
                 /\ pc[c] \in {"init", "join_users"}
                 /\ users[c][userID[s]] > 0
      ]_vars
C6_Witness ==
    \E s \in Conns : \E c \in Conns \ {s} :
        /\ pc[s] = "join_msg" /\ s \in rholders
        /\ visited[s] = {s, c}
        /\ HasRosterWith(c, userID[s]) /\ HasRosterWith(s, userID[s])

\* C7: once every join and leave is over and no broadcast runs, the last roster
\* written to each registered connection lists exactly the registered
\* identities.
Quiescent ==
    /\ \A c \in Conns : pc[c] \in {"upgrade", "read", "done"}
    /\ pc[SendProc] = "idle"
    /\ rholders \subseteq {InfoProc}
C7_FinalRoster ==
    Quiescent => \A c \in DOMAIN clients : view[c] = Some(MapValues(clients))

\* C8: the roster broadcast for a leave lacks the departed identity, the "left,
\* N online" narrative follows it with N the number of identities in that
\* roster, and neither is written to the departed connection.
RosterSize(u) == LET Sum[S \in SUBSET Ids] ==
                         IF S = {} THEN 0
                         ELSE LET i == CHOOSE x \in S : TRUE IN u[i] + Sum[S \ {i}]
                 IN Sum[Ids]
C8_LeaveRoster ==
    \A s \in Conns :
        pc[s] \in {"leave_users", "leave_msg"} =>
            /\ users[s][userID[s]] = 0
            /\ count[s] = RosterSize(users[s])
            /\ attempts[s][s] = 0
            /\ BroadcastMsg(s) = IF pc[s] = "leave_users"
                                 THEN UsersMsg(users[s])
                                 ELSE NarrativeMsg("leave", userID[s], count[s])

\* C9: the number of entries of clients, which infoHandler reports, is the
\* number of sessions that have registered and not yet unregistered; so a
\* register followed by the unregister of the same connection restores it.
C9_CountIsRegistered ==
    wholder = Nil =>
        /\ MapLen(clients) = Cardinality({c \in Conns : InRegistry(c)})
        /\ pc[InfoProc] = "info_unlock" =>
              online = Some(Cardinality({c \in Conns : InRegistry(c)}))
C9_Witness ==
    /\ wholder = Nil
    /\ pc[InfoProc] = "info_unlock"
    /\ \E c \in Conns : c \in closed
    /\ \E c \in Conns : InRegistry(c)

\* C10: a chat frame read from a connection goes to broadcast.
C10_ChatFrameBroadcast ==
    [][\A s \in Conns :
          (pc[s] = "dispatch" /\ frame[s][1].env = "message" /\ pc'[s] # pc[s]) =>
              pc'[s] \in BroadcastSites
      ]_vars

\* C10 as amended: a chat frame read from a connection is dropped without any
\* write; chat comes in through sendHandler, which broadcasts a message frame
\* with the request's non-empty from and text to every registered connection.
C10_ChatBySendHandler ==
    [][/\ \A s \in Conns :
             (pc[s] = "dispatch" /\ frame[s][1].env = "message" /\ pc'[s] # pc[s]) =>
                 /\ pc'[s] = "read"
                 /\ UNCHANGED <<clients, userIdToConn, rholders, attempts, rosters, view>>
       /\ pc[SendProc] = "send_bc" =>
             /\ req # Nil
             /\ req[1].message # "" /\ req[1].from # ""
             /\ BroadcastMsg(SendProc).type = "message"
             /\ BroadcastMsg(SendProc).from = req[1].from
             /\ BroadcastMsg(SendProc).text = <<"chat", req[1].message>>
             /\ pc'[SendProc] # "send_bc" =>
                   attempts[SendProc] = [c \in Conns |-> IF c \in DOMAIN clients THEN 1 ELSE 0]
      ]_vars
C10_Witness ==
    /\ pc[SendProc] = "send_bc" /\ SendProc \in rholders
    /\ MapLen(clients) = NumConns
    /\ \A c \in DOMAIN clients : attempts[SendProc][c] = 1
    /\ \E s \in Conns : pc[s] = "dispatch" /\ frame[s][1].env = "message"

\* The read loop of wsHandler: the Active state of a session.
ActivePos == {"read", "dispatch", "fwd_lock", "fwd_write", "fwd_unlock"}
\* The deferred teardown, position by position, up to the end of the handler.
TeardownNext(at) ==
    CASE at = "unreg_lock" -> "unreg_fwd"
      [] at = "unreg_fwd" -> "unreg_rev"
      [] at = "unreg_rev" -> "unreg_snap"
      [] at = "unreg_snap" -> "leave_users"
      [] at = "leave_users" -> "leave_msg"
      [] at = "leave_msg" -> "close"
      [] at = "close" -> "done"
      [] at = "done" -> "done"
TeardownPos == {"unreg_lock", "unreg_fwd", "unreg_rev", "unreg_snap",
                "leave_users", "leave_msg", "close", "done"}
\* c has an entry in the reverse index.
Mirrored(c) == \E id \in DOMAIN userIdToConn : userIdToConn[id] = c
MirroredNext(c) == \E id \in DOMAIN userIdToConn' : userIdToConn'[id] = c

\* C11: a session leaves its read loop only by a read error; its teardown then
\* runs once, in the order: out of both maps, leave roster broadcast, leave
\* narrative broadcast, close; and a connection is closed, taken out of clients
\* or taken out of userIdToConn only by a step of its own session's teardown.
C11_TeardownOnceInOrder ==
    [][\A c \in Conns :
          /\ (pc[c] \in ActivePos /\ pc'[c] \notin ActivePos) =>
                pc[c] = "read" /\ pc'[c] = "unreg_lock"
          /\ (pc[c] \in TeardownPos /\ pc'[c] # pc[c]) => pc'[c] = TeardownNext(pc[c])
          /\ pc[c] \in {"leave_users", "leave_msg", "close"} =>
                c \notin DOMAIN clients /\ ~Mirrored(c) /\ c \notin closed
          /\ (pc[c] \in {"leave_users", "leave_msg"} /\ pc'[c] # pc[c]) =>
                /\ c \in rholders /\ c \notin rholders'
                /\ \A x \in DOMAIN clients : attempts[c][x] = 1
                /\ BroadcastMsg(c).type = IF pc[c] = "leave_users" THEN "users" ELSE "message"
          /\ (c \in closed' /\ c \notin closed) => pc[c] = "close"
          /\ c \in closed => c \in closed' /\ pc[c] = "done"
          /\ (c \in DOMAIN clients /\ c \notin DOMAIN clients') =>
                pc[c] = "unreg_fwd" /\ wholder = Some(c)
          /\ (Mirrored(c) /\ ~MirroredNext(c)) =>
                pc[c] = "unreg_rev" /\ wholder = Some(c)
      ]_vars

\* ------------------------------------------------------------- fairness
\* The steps a session takes by itself. Upgrade and ReadMessage wait for the
\* peer, SendRequest and InfoRequest for an HTTP client: these may never come.
SessionStep(c) ==
    \/ GenerateUserID(c) \/ RegLockCall(c) \/ RegLock(c) \/ RegForward(c)
    \/ RegReverse(c) \/ RegSnapshot(c) \/ SendInitCall(c) \/ SendInit(c)
    \/ BroadcastRLock(c) \/ BroadcastWriteCall(c) \/ BroadcastWrite(c)
    \/ BroadcastRUnlock(c) \/ Dispatch(c)
    \/ ForwardRLock(c) \/ ForwardWriteCall(c) \/ ForwardWrite(c) \/ ForwardRUnlock(c)
    \/ UnregLockCall(c) \/ UnregLock(c) \/ UnregForward(c) \/ UnregReverse(c)
    \/ UnregSnapshot(c) \/ Close(c)
SendStep ==
    \/ BroadcastRLock(SendProc) \/ BroadcastWriteCall(SendProc)
    \/ BroadcastWrite(SendProc) \/ BroadcastRUnlock(SendProc)
InfoStep == InfoRLock \/ InfoRUnlock
\* A goroutine that can run does run, a WriteMessage call returns, and a
\* goroutine waiting in Lock() or RLock() goes on once the lock lets it in.
Fairness ==
    /\ \A c \in Conns : WF_vars(SessionStep(c))
    /\ WF_vars(SendStep)
    /\ WF_vars(InfoStep)
FairSpec == LiveInit /\ [][Next]_vars /\ Fairness

\* A handler in the middle of its work, and one that waits for its peer or is over.
Busy(p) == pc[p] \notin {"upgrade", "read", "idle", "done"}

\* The read of c has failed and c is still in clients.
ReadFailedStillIn(c) == pc[c] \in TeardownPos /\ c \in DOMAIN clients

\* C12: under FairSpec every handler that has started a registration, a
\* teardown, a broadcast, a relay or a count read gets through it, lock waits
\* included, and a session whose read failed is taken out of clients.
C12_NoDeadlock ==
    /\ \A p \in Procs : []<>(~Busy(p))
    /\ \A c \in Conns : []<>(~ReadFailedStillIn(c))
\* A failed session has announced its Lock() and waits for a broadcasting
\* session to leave, while sendHandler and infoHandler wait to read.
C12_Witness ==
    \E c, d \in Conns :
        /\ pc[c] = "unreg_lock" /\ pending = Some(c) /\ wholder = Nil
        /\ ReadFailedStillIn(c)
        /\ d \in rholders /\ pc[d] \in BroadcastSites
        /\ pc[SendProc] = "send_bc" /\ SendProc \notin rholders
        /\ pc[InfoProc] = "info_lock"

\* Positions between clientsMu.Lock() and clientsMu.Unlock().
LockedPos == {"reg_fwd", "reg_rev", "reg_snap", "unreg_fwd", "unreg_rev", "unreg_snap"}
\* p is between an RLock() and its RUnlock(): a broadcast iteration, a
\* forwardSignal lookup or an infoHandler count read is in progress.
Reading(p) ==
    \/ p \in rholders
    \/ pc[p] \in {"fwd_write", "fwd_unlock", "info_unlock"}

Writes(p) ==
    \/ \E x \in Conns : attempts'[p][x] = attempts[p][x] + 1
    \/ p \in Conns /\ pc[p] = "init" /\ pc'[p] # "init"

\* C14 as stated: a handler that writes to a connection while it holds
\* clientsMu, shared or exclusive, is inside a broadcast fan-out.
C14_OnlyBroadcastWritesLocked ==
    [][\A p \in Procs :
          Writes(p) =>
              /\ wholder # Some(p)
              /\ p \in rholders => pc[p] \in BroadcastSites
      ]_vars

\* C14 as amended: a handler writes to a connection while holding clientsMu
\* only with the shared lock and only in broadcast, across the whole fan-out,
\* and in forwardSignal, across its one write; the init write of a
\* registration and every write after a teardown's Unlock() are made without
\* the exclusive lock, and infoHandler writes to no connection.
C14_SharedLockAcrossWrites ==
    [][\A p \in Procs :
          /\ Writes(p) =>
                /\ wholder # Some(p) /\ pc[p] \notin LockedPos
                /\ p \in rholders <=> pc[p] \in BroadcastSites \cup {"fwd_write"}
                /\ pc[p] = "fwd_write" => attempts[p] = NoAttempts
                /\ p # InfoProc
          /\ (p \in rholders /\ pc[p] \notin BroadcastSites /\ pc'[p] # pc[p]) =>
                \/ Writes(p) /\ pc[p] = "fwd_write"
                \/ ~Writes(p) /\ p \notin rholders'
      ]_vars
\* forwardSignal has written to the resolved connection and still holds the
\* shared lock, with a session waiting in Lock() behind it.
C14_Witness ==
    \E c \in Conns :
        /\ pc[c] = "fwd_unlock" /\ c \in rholders
        /\ target[c] # Nil /\ attempts[c][target[c][1]] = 1
        /\ pending # Nil /\ wholder = Nil

\* C15: while a session relays a signaling frame, it has made at most one
\* write and none to its own connection, whatever identity the frame names.
C15_NoLoopback ==
    \A s \in Conns :
        pc[s] \in {"fwd_write", "fwd_unlock"} =>
            /\ attempts[s][s] = 0
            /\ \A c \in Conns : attempts[s][c] <= 1
            /\ Cardinality({c \in Conns : attempts[s][c] > 0}) <= 1

\* C16: the connection forwardSignal has resolved and is about to write to is
\* in clients, its session has not started to unregister it and Close() has
\* not run on it; the lookup itself never yields a connection that has been
\* unregistered, also when two live connections carry the same identity.
C16_RelayTargetLive ==
    /\ \A s \in Conns :
          pc[s] = "fwd_write" =>
              /\ target[s] # Nil
              /\ target[s][1] \in DOMAIN clients
              /\ target[s][1] \notin closed
              /\ InRegistry(target[s][1])
    /\ (wholder = Nil) =>
          \A id \in DOMAIN userIdToConn :
              /\ userIdToConn[id] \in DOMAIN clients
              /\ userIdToConn[id] \notin closed
              /\ InRegistry(userIdToConn[id])
\* A relay has written to its target while all live connections carry the
\* same identity.
C16_Witness ==
    \E s, t \in Conns :
        /\ pc[s] = "fwd_unlock" /\ attempts[s][t] = 1
        /\ MapLen(clients) = NumConns
        /\ \A c \in DOMAIN clients : clients[c] = clients[s]

\* A signaling frame with an empty kind or an empty destination, or a frame
\* whose envelope or inner payload does not decode.
Malformed(f) ==
    \/ f.env = "garbage"
    \/ f.env = "signal" /\ (f.inner # "ok" \/ f.type = "" \/ f.to = "")

\* C17: the step that handles a malformed frame writes to no connection, leaves
\* clients and userIdToConn as they are, takes no lock, closes nothing and
\* puts the session back at its read.
C17_MalformedDropped ==
    [][\A s \in Conns :
          (pc[s] = "dispatch" /\ Malformed(frame[s][1]) /\ pc'[s] # pc[s]) =>
              /\ pc'[s] = "read" /\ pc'[s] \in ActivePos
              /\ frame'[s] = Nil /\ sig'[s] = Nil /\ target'[s] = Nil
              /\ UNCHANGED <<clients, userIdToConn, wholder, rholders, pending,
                             attempts, visited, rosters, view, inits, closed>>
      ]_vars
\* A session is about to handle a signaling frame with an empty kind that names
\* the identity of another registered connection.
C17_Witness ==
    \E s, t \in Conns :
        /\ pc[s] = "dispatch"
        /\ frame[s][1].env = "signal" /\ frame[s][1].inner = "ok"
        /\ frame[s][1].type = "" /\ frame[s][1].to # ""
        /\ s # t /\ Lookup(frame[s][1].to) = Some(t)

\* C18: the frame a session relays carries the source of the inbound frame when
\* that is not empty and else the identity the session is registered under in
\* clients, and the destination, kind and payload of the inbound frame.
C18_SourceFilled ==
    \A s \in Conns :
        pc[s] \in {"fwd_lock", "fwd_write", "fwd_unlock"} =>
            /\ frame[s] # Nil /\ sig[s] # Nil /\ s \in DOMAIN clients
            /\ sig[s][1].from =
                  IF frame[s][1].from # "" THEN frame[s][1].from ELSE clients[s]
            /\ sig[s][1].from # ""
            /\ sig[s][1].to = frame[s][1].to
            /\ sig[s][1].type = frame[s][1].type
            /\ sig[s][1].payload = frame[s][1].payload
\* Two relays have written: one of a frame without a source, one of a frame
\* whose source is not the sender's identity.
C18_Witness ==
    \E s, t \in Conns :
        /\ pc[s] = "fwd_unlock" /\ \E c \in Conns : attempts[s][c] = 1
        /\ frame[s][1].from = ""
        /\ pc[t] = "fwd_unlock" /\ \E c \in Conns : attempts[t][c] = 1
        /\ frame[t][1].from # "" /\ frame[t][1].from # clients[t]

\* The step is one of handler p.
Acts(p) ==
    \/ pc'[p] # pc[p]
    \/ attempts'[p] # attempts[p]
    \/ visited'[p] # visited[p]
    \/ (p \in rholders) # (p \in rholders')
\* Positions inside broadcast, forwardSignal and infoHandler's count read.
ReadSidePos ==
    BroadcastSites \cup {"fwd_lock", "fwd_write", "fwd_unlock", "info_lock", "info_unlock"}

\* C19: no step of broadcast, of forwardSignal or of infoHandler's count read
\* changes clients or userIdToConn, whether the write succeeds or fails; the
\* entry of a connection, in clients and in userIdToConn, is taken out only by
\* a step of that connection's own session in its teardown after its read
\* failed.
C19_ReadSideLeavesRegistry ==
    [][/\ \A p \in Procs :
             (Acts(p) /\ pc[p] \in ReadSidePos) => UNCHANGED <<clients, userIdToConn>>
       /\ \A c \in Conns :
             /\ (c \in DOMAIN clients /\ c \notin DOMAIN clients') =>
                   pc[c] = "unreg_fwd" /\ Acts(c)
             /\ (Mirrored(c) /\ ~MirroredNext(c)) =>
                   pc[c] = "unreg_rev" /\ Acts(c)
      ]_vars

\* Positions of wsHandler after its init write.
AfterInit(c) ==
    \/ pc[c] \in {"join_users", "join_msg", "unreg_lock", "unreg_fwd", "unreg_rev",
                  "unreg_snap", "leave_users", "leave_msg", "close"}
    \/ pc[c] \in ActivePos
    \/ pc[c] = "done" /\ c \in closed

\* C20: every connection is written one init frame once its session is past
\* the init write and none before; the step that writes it is the session's
\* own, writes to its own connection only, carries the identity the connection
\* is registered under, comes after the session left the Lock() section in
\* which it put the connection in clients and userIdToConn, and before the
\* session has started either join broadcast.
C20_InitOnceAfterRegistration ==
    [][\A c \in Conns :
          /\ inits[c] = IF AfterInit(c) THEN 1 ELSE 0
          /\ pc[c] \in {"join_users", "join_msg"} => inits[c] = 1
          /\ (pc'[c] = "init" /\ pc[c] # "init") =>
                /\ pc[c] = "reg_snap" /\ wholder = Some(c)
                /\ c \in DOMAIN clients /\ clients[c] = userID[c]
                /\ userID[c] \in DOMAIN userIdToConn /\ userIdToConn[userID[c]] = c
          /\ inits'[c] # inits[c] =>
                /\ pc[c] = "init" /\ pc'[c] = "join_users"
                /\ \A d \in Conns \ {c} : inits'[d] = inits[d]
                /\ c \in DOMAIN clients /\ clients[c] = userID[c]
                /\ InitMsg(userID[c]).userId = clients[c]
                /\ wholder # Some(c) /\ c \notin rholders
                /\ attempts[c] = NoAttempts /\ visited[c] = {}
      ]_vars
\* Both connections have been written their init frame; one session is in its
\* join roster broadcast, the other has not started its own.
C20_Witness ==
    \E c, d \in Conns :
        /\ c # d
        /\ inits[c] = 1 /\ inits[d] = 1
        /\ pc[c] = "join_users" /\ c \in rholders /\ attempts[c][d] = 1
        /\ pc[d] = "join_users" /\ d \notin rholders

\* The upgrade of c failed: wsHandler has returned and Close() never ran.
UpgradeFailed(c) == pc[c] = "done" /\ c \notin closed

\* C21: the step in which an upgrade fails changes neither map, assigns no
\* identity and writes nothing; afterwards the session has no identity, its
\* connection is in neither map, no init or users frame was ever written to
\* it, and the handler stays returned.
C21_UpgradeFailureAborts ==
    [][\A c \in Conns :
          /\ (pc[c] = "upgrade" /\ pc'[c] = "done") =>
                UNCHANGED <<clients, userIdToConn, wholder, rholders, pending, userID,
                            attempts, visited, rosters, view, inits, closed>>
          /\ UpgradeFailed(c) =>
                /\ userID[c] = NoID
                /\ c \notin DOMAIN clients /\ ~Mirrored(c)
                /\ inits[c] = 0 /\ rosters[c] = {} /\ view[c] = Nil
                /\ attempts[c] = NoAttempts /\ c \notin rholders /\ wholder # Some(c)
                /\ \A p \in Procs : attempts[p][c] = 0
                /\ pc'[c] = "done" /\ c \notin closed'
      ]_vars
\* One upgrade has failed while the other session is registered and has been
\* written its init frame and a roster.
C21_Witness ==
    \E c, d \in Conns :
        /\ UpgradeFailed(c)
        /\ d \in DOMAIN clients /\ inits[d] = 1 /\ rosters[d] # {}

\* C22: no two handlers are inside a WriteMessage call on the same connection
\* at the same time, whichever of the init write, a broadcast and a relay the
\* calls belong to.
C22_OneWriterPerConn ==
    \A p, q \in Procs :
        (p # q /\ writing[p] # Nil /\ writing[q] # Nil) => writing[p] # writing[q]

\* The step is the return of a WriteMessage call of handler p on connection c
\* made by broadcast or forwardSignal.
WritesFrameTo(p, c) == attempts'[p][c] = attempts[p][c] + 1

\* C23 as stated: a roster, narrative, chat or signal frame is written to a
\* connection only after its init frame.
C23_InitFirst ==
    [][\A p \in Procs : \A c \in Conns : WritesFrameTo(p, c) => inits[c] = 1]_vars

\* C23 as amended: the init frame comes before every frame the connection's own
\* session writes, to it or to any connection; a frame written to a connection
\* before its init frame comes from the broadcast or relay of another handler
\* and is written after the connection's registration section, while its
\* session has still to finish the init write.
C23_InitBeforeOwnFrames ==
    [][\A c \in Conns :
          /\ inits[c] = 0 =>
                /\ attempts[c] = NoAttempts /\ visited[c] = {}
                /\ \A x \in Conns : ~WritesFrameTo(c, x)
          /\ \A p \in Procs :
                (WritesFrameTo(p, c) /\ inits[c] = 0) =>
                    /\ p # c
                    /\ pc[p] \in BroadcastSites \cup {"fwd_write"} /\ p \in rholders
                    /\ pc[c] = "init" /\ c \in DOMAIN clients
      ]_vars
\* A sendHandler broadcast and a relay have both written to a registered
\* connection that has not been written its init frame.
C23_Witness ==
    \E c, d \in Conns :
        /\ pc[c] = "init" /\ inits[c] = 0
        /\ attempts[SendProc][c] = 1
        /\ pc[d] = "fwd_unlock" /\ attempts[d][c] = 1

====
